---- MODULE Spec2Model ----
(***************************************************************************)
(* A model of katello_certs_tools/rhn_rpm.py: locating the header          *)
(* structures of an RPM file, the RPM_Header wrapper (signatures, digest   *)
(* algorithm, signed flag), loading a package header through the shared    *)
(* transaction handle, and ordering packages.                              *)
(*                                                                         *)
(* Bytes are integers 0..255, byte strings and text strings are sequences  *)
(* of character codes.  A Python value is a record [t, v]: t is its type   *)
(* ("none", "int", "bytes", "str") and v a sequence holding its content.   *)
(***************************************************************************)
EXTENDS Integers, Sequences, FiniteSets, TLC

VARIABLES
    pkg_file,     \* the open byte source: [data |-> bytes, pos |-> cursor]
    rpm_has_dsa,  \* whether the rpm module defines RPMTAG_DSAHEADER
    decoded,      \* the header the decoder hands over (tag -> value), or NoHdr
    header,       \* the RPM_Header object built last, or NoHeader
    rpms,         \* the headers given to hdrLabelCompare and sortRPMs
    tuples,       \* the (name, version, release, epoch) pair given to nvre_compare
    python,       \* the major version of the interpreter running the module
    SHARED_TS,    \* the module-level transaction handle: "None" or "ts"
    macros,       \* how many definitions of '_dbpath' rpm's macro stack holds
    ts_created,   \* how many times rpm.ts() was called
    ncalls,       \* how many get_package_header calls were made
    call          \* the call that returned last: its name, inputs and outcome

vars == <<pkg_file, rpm_has_dsa, decoded, header, rpms, tuples, python,
          SHARED_TS, macros, ts_created, ncalls, call>>

(***************************************************************************)
(* Bounds of the model.                                                    *)
(***************************************************************************)
MaxIndex == 2      \* index entries of a header structure of a complete file
MaxStore == 9      \* data-store bytes of a header structure of a complete file
MaxSigs == 2       \* signature tags a decoded header holds at once
MaxAlgo == 11      \* largest value of the file-digest-algorithm tag
MaxCalls == 3      \* get_package_header calls in one run of the process
MaxRpms == 3       \* packages in a list given to sortRPMs

Min(a, b) == IF a < b THEN a ELSE b

\* F(v), with v worked out once before F uses it.
Bind(v, F(_)) == CHOOSE out \in { F(x) : x \in {v} } : TRUE

\* What a variable holds before the program has made its object.
NoFile == [data |-> << >>, pos |-> 0]
NoHdr == [tags |-> "None"]
NoHeader == [hdr |-> "None"]
NoCall == [op |-> "none"]

NoException == "none"

(***************************************************************************)
(* Byte sources: open(), seek(), read() of a Python file object.           *)
(***************************************************************************)
Repeat(b, n) == [i \in 1..n |-> b]

\* file.seek(offset, whence): whence 0 is absolute, 1 relative to the cursor.
\* Seeking past the end of a file is allowed.
seek(f, offset, whence) ==
    [f EXCEPT !.pos = IF whence = 0 THEN offset ELSE f.pos + offset]

\* file.read(n): the bytes from the cursor, fewer than n at the end of the file.
read(f, n) ==
    LET last == Min(f.pos + n, Len(f.data))
        got  == IF f.pos >= Len(f.data) THEN << >>
                ELSE SubSeq(f.data, f.pos + 1, last)
    IN [bytes |-> got, file |-> [f EXCEPT !.pos = f.pos + Len(got)]]

\* struct.unpack('>I', b): a 4-byte big-endian unsigned integer; any other
\* length raises struct.error.
unpack_I(b) ==
    IF Len(b) # 4 THEN [exc |-> "struct.error", value |-> 0]
    ELSE [exc |-> NoException,
          value |-> ((b[1] * 256 + b[2]) * 256 + b[3]) * 256 + b[4]]

(***************************************************************************)
(* get_header_struct_size and get_header_byte_range.                       *)
(***************************************************************************)
lead_size == 96

\* The rounding with the remainder added instead of its complement to 8.
round_out_size_mutant(header_size) ==
    LET round_out == header_size % 8
    IN IF round_out # 0 THEN header_size + round_out ELSE header_size

\* The rounding of lines 177-179.
round_out_size(header_size) ==
    LET round_out == header_size % 8
    IN IF round_out # 0 THEN header_size + (8 - round_out) ELSE header_size

\* The result is [exc, ret, file]: the exception raised (or none), the size
\* returned and the byte source as the call leaves it.
get_header_struct_size(f) ==
    LET f1 == seek(f, 8, 1)
        r1 == read(f1, 4)
        header_index == unpack_I(r1.bytes)
        r2 == read(r1.file, 4)
        header_store == unpack_I(r2.bytes)
    IN IF header_index.exc # NoException
         THEN [exc |-> header_index.exc, ret |-> 0, file |-> r1.file]
       ELSE IF header_store.exc # NoException
         THEN [exc |-> header_store.exc, ret |-> 0, file |-> r2.file]
       ELSE [exc |-> NoException,
             ret |-> round_out_size(8 + 4 + 4 + header_index.value * 16
                                    + header_store.value),
             file |-> r2.file]

\* The byte range with the end of the main header counted from the lead, the
\* signature header left out.
get_header_byte_range_mutant(f) ==
    LET f1  == seek(f, lead_size, 0)
        sig == get_header_struct_size(f1)
        header_start == lead_size + sig.ret
        f2  == seek(sig.file, header_start, 0)
        hdr == get_header_struct_size(f2)
        header_end == lead_size + hdr.ret
    IN IF sig.exc # NoException
         THEN [exc |-> sig.exc, ret |-> << >>, file |-> sig.file,
               sig_start |-> f1.pos]
       ELSE IF hdr.exc # NoException
         THEN [exc |-> hdr.exc, ret |-> << >>, file |-> hdr.file,
               sig_start |-> f1.pos]
       ELSE [exc |-> NoException, ret |-> <<header_start, header_end>>,
             file |-> hdr.file, sig_start |-> f1.pos]

\* The result is [exc, ret, file, sig_start]: ret is the pair
\* <<header_start, header_end>>, sig_start the cursor at which the signature
\* header's size was read.
get_header_byte_range(f) ==
    LET f1  == seek(f, lead_size, 0)
        sig == get_header_struct_size(f1)
        header_start == lead_size + sig.ret
        f2  == seek(sig.file, header_start, 0)
        hdr == get_header_struct_size(f2)
        header_end == header_start + hdr.ret
    IN IF sig.exc # NoException
         THEN [exc |-> sig.exc, ret |-> << >>, file |-> sig.file,
               sig_start |-> f1.pos]
       ELSE IF hdr.exc # NoException
         THEN [exc |-> hdr.exc, ret |-> << >>, file |-> hdr.file,
               sig_start |-> f1.pos]
       ELSE [exc |-> NoException, ret |-> <<header_start, header_end>>,
             file |-> hdr.file, sig_start |-> f1.pos]

(***************************************************************************)
(* The files the calls are given: a 96-byte lead, a signature header       *)
(* structure and a main header structure, each an 8-byte prefix, the two   *)
(* big-endian counts, 16 bytes per index entry, the data store and the     *)
(* padding to a multiple of 8.  A file may be cut short.                   *)
(***************************************************************************)
be32(n) == << (n \div 16777216) % 256, (n \div 65536) % 256,
              (n \div 256) % 256, n % 256 >>

HeaderMagic == << 142, 173, 232, 1, 0, 0, 0, 0 >>

PadTo8(n) == (8 - (n % 8)) % 8

header_struct(index_count, store_bytes) ==
    HeaderMagic \o be32(index_count) \o be32(store_bytes)
      \o Repeat(5, 16 * index_count) \o Repeat(6, store_bytes)
      \o Repeat(0, PadTo8(16 + 16 * index_count + store_bytes))

rpm_file(si, ss, hi, hs) ==
    Repeat(237, lead_size) \o header_struct(si, ss) \o header_struct(hi, hs)

\* Counts that a file states without holding the structure they describe: the
\* file ends after the two counts.
LargeCounts == {255, 256, 65537, 16777216 + 3}

preamble_only(index_count, store_bytes) ==
    Repeat(237, lead_size) \o HeaderMagic \o be32(index_count)
      \o be32(store_bytes)

CompleteFiles ==
    { rpm_file(si, ss, hi, hs) : si \in 0..MaxIndex, ss \in 0..MaxStore,
                                 hi \in 0..MaxIndex, hs \in 0..MaxStore }

PreambleFiles ==
    { preamble_only(i, s) : i \in (0..MaxIndex) \cup LargeCounts,
                            s \in (0..MaxStore) \cup LargeCounts }

\* Files that end inside the lead, inside the first counts or before the
\* main header's counts.
CutFiles ==
    { SubSeq(rpm_file(1, 1, 1, 1), 1, n) : n \in {50, 106, 110, 136, 148} }

(***************************************************************************)
(* Python values, as far as the code looks at them.                        *)
(***************************************************************************)
PyNone == [t |-> "none", v |-> << >>]
PyInt(n) == [t |-> "int", v |-> <<n>>]
PyBytes(s) == [t |-> "bytes", v |-> s]
PyStr(s) == [t |-> "str", v |-> s]

\* bool(x), as `if x` and `not x` evaluate it.
Truthy(x) ==
    CASE x.t = "none" -> FALSE
      [] x.t = "int"  -> x.v[1] # 0
      [] OTHER        -> Len(x.v) > 0

\* x[a:b] on a byte string: the bytes at 0-based places a .. b-1 that exist.
PySlice(s, a, b) ==
    IF a >= Min(b, Len(s)) THEN << >> ELSE SubSeq(s, a + 1, Min(b, Len(s)))

HexDigits == <<"0", "1", "2", "3", "4", "5", "6", "7",
               "8", "9", "a", "b", "c", "d", "e", "f">>

\* ("%02x" * n) % struct.unpack("%dB" % n, key_id)
RECURSIVE hex_format(_)
hex_format(bytes) ==
    IF bytes = << >> THEN ""
    ELSE HexDigits[(Head(bytes) \div 16) + 1] \o HexDigits[(Head(bytes) % 16) + 1]
           \o hex_format(Tail(bytes))

(***************************************************************************)
(* RPM_Header.                                                             *)
(***************************************************************************)
PGPHASHALGO ==
    [k \in {1, 2, 3, 5, 6, 7, 8, 9, 10} |->
        CASE k = 1 -> "md5"
          [] k = 2 -> "sha1"
          [] k = 3 -> "ripemd160"
          [] k = 5 -> "md2"
          [] k = 6 -> "tiger192"
          [] k = 7 -> "haval-5-160"
          [] k = 8 -> "sha256"
          [] k = 9 -> "sha384"
          [] k = 10 -> "sha512"]

\* The rows of header_tags, in the order the loop visits them.
header_tags == << <<"dsaheader", "dsa">>, <<"rsaheader", "rsa">>,
                  <<"siggpg", "gpg">>, <<"sigpgp", "pgp">> >>

\* The selection with strict thresholds: a value of exactly 65, 72 or 536
\* bytes falls into the next class.
select_key_id_mutant(ret) ==
    IF Len(ret) < 65 THEN PySlice(ret, 9, 17)
    ELSE IF Len(ret) < 72 THEN PySlice(ret, 18, 26)
    ELSE IF Len(ret) < 536 THEN PySlice(ret, 10, 18)
    ELSE PySlice(ret, 19, 27)

\* The key id the loop body cuts out of a raw value of 17 bytes or more.
select_key_id(ret) ==
    IF Len(ret) <= 65 THEN PySlice(ret, 9, 17)
    ELSE IF Len(ret) <= 72 THEN PySlice(ret, 18, 26)
    ELSE IF Len(ret) <= 536 THEN PySlice(ret, 10, 18)
    ELSE PySlice(ret, 19, 27)

\* One pass of the loop body: the records appended for one row of header_tags.
extract_one(hdr, row) ==
    LET ret == hdr[row[1]]
    IN IF ~Truthy(ret) THEN << >>
       ELSE IF Len(ret.v) < 17 THEN << >>
       ELSE << [signature_type |-> row[2],
                key_id |-> hex_format(select_key_id(ret.v)),
                signature |-> ret] >>

extract_signatures(hdr) ==
    extract_one(hdr, header_tags[1]) \o extract_one(hdr, header_tags[2])
      \o extract_one(hdr, header_tags[3]) \o extract_one(hdr, header_tags[4])

\* RPM_Header(hdr, is_source).  _extract_signatures reads
\* rpm.RPMTAG_DSAHEADER, which an rpm module without it cannot give.
RPM_Header(hdr, is_source, has_dsa) ==
    IF ~has_dsa THEN [exc |-> "AttributeError", obj |-> NoHeader]
    ELSE [exc |-> NoException,
          obj |-> [hdr |-> hdr, is_source |-> is_source, packaging |-> "rpm",
                   signatures |-> extract_signatures(hdr)]]

\* is_signed with the rsa value counted as a signature too.
is_signed_mutant(self, has_dsa) ==
    LET dsaheader == IF has_dsa THEN self.hdr["dsaheader"] ELSE PyInt(0)
    IN IF Truthy(self.hdr["siggpg"]) \/ Truthy(self.hdr["sigpgp"])
            \/ Truthy(dsaheader) \/ Truthy(self.hdr["rsaheader"])
         THEN [exc |-> NoException, ret |-> 1]
         ELSE [exc |-> NoException, ret |-> 0]

\* The result of a method is [exc, ret].
is_signed(self, has_dsa) ==
    LET dsaheader == IF has_dsa THEN self.hdr["dsaheader"] ELSE PyInt(0)
    IN IF Truthy(self.hdr["siggpg"]) \/ Truthy(self.hdr["sigpgp"])
            \/ Truthy(dsaheader)
         THEN [exc |-> NoException, ret |-> 1]
         ELSE [exc |-> NoException, ret |-> 0]

\* x.decode('utf-8'): only byte strings have the method, and only ASCII bytes
\* are met here.
decode_utf8(x) ==
    IF x.t # "bytes" THEN [exc |-> "AttributeError", value |-> PyNone]
    ELSE IF \E i \in 1..Len(x.v) : x.v[i] > 127
      THEN [exc |-> "UnicodeDecodeError", value |-> PyNone]
    ELSE [exc |-> NoException, value |-> PyStr(x.v)]

\* `key in PGPHASHALGO`: the keys are integers, so only an integer is found.
in_PGPHASHALGO(key) == key.t = "int" /\ key.v[1] \in DOMAIN PGPHASHALGO

checksum_type(self) ==
    LET algo == self.hdr["filedigestalgo"]
        text == decode_utf8(algo)
    IN IF ~Truthy(algo) THEN [exc |-> NoException, ret |-> "md5"]
       ELSE IF text.exc # NoException THEN [exc |-> text.exc, ret |-> ""]
       ELSE IF in_PGPHASHALGO(text.value)
         THEN [exc |-> NoException, ret |-> PGPHASHALGO[algo.v[1]]]
       ELSE [exc |-> NoException, ret |-> "md5"]

\* headerLoad(data): rpm.headerLoad decodes the blob into hdr.
headerLoad(hdr, has_dsa) == RPM_Header(hdr, hdr["sourcepackage"], has_dsa)

(***************************************************************************)
(* The decoded headers the wrapper is built from.                          *)
(***************************************************************************)
\* Lengths of raw signature values on both sides of every threshold.
SigLens == {1, 16, 17, 65, 66, 72, 73, 536, 537}

\* A raw value of n bytes whose neighbouring bytes all differ.
sig_bytes(n) == PyBytes([i \in 1..n |-> (i * 7 + n) % 256])

SigValues == {PyNone, PyBytes(<< >>)} \cup { sig_bytes(n) : n \in SigLens }

Present(x) == x # PyNone

SigProfiles ==
    { p \in [{"dsaheader", "rsaheader", "siggpg", "sigpgp"} -> SigValues] :
        Cardinality({k \in DOMAIN p : Present(p[k])}) <= MaxSigs }

DigestValues ==
    {PyNone, PyBytes(<<56>>)} \cup { PyInt(n) : n \in 0..MaxAlgo }

make_hdr(p, algo, src) ==
    [dsaheader |-> p["dsaheader"], rsaheader |-> p["rsaheader"],
     siggpg |-> p["siggpg"], sigpgp |-> p["sigpgp"],
     filedigestalgo |-> algo, sourcepackage |-> src]

NoSigs == [k \in {"dsaheader", "rsaheader", "siggpg", "sigpgp"} |-> PyNone]

\* Every signature profile, with no digest tag.
SigHdrs == { make_hdr(p, PyNone, PyNone) : p \in SigProfiles }

\* Every combination of absent, empty and present signature tags.
PresenceHdrs ==
    { make_hdr(p, PyNone, PyNone) :
        p \in [{"dsaheader", "rsaheader", "siggpg", "sigpgp"} ->
                  {PyNone, PyBytes(<< >>), sig_bytes(17)}] }

\* Every value of the digest tag, on binary and source packages.
DigestHdrs ==
    { make_hdr(NoSigs, algo, src) : algo \in DigestValues,
                                    src \in {PyNone, PyInt(1)} }

Hdrs == SigHdrs \cup PresenceHdrs \cup DigestHdrs

(***************************************************************************)
(* get_package_header: the file is opened, the shared transaction handle   *)
(* made on first use, and the header decoded with '_dbpath' defined.       *)
(***************************************************************************)
\* The arguments of a call: which of filename, file_stream and fd are given.
ArgKinds == SUBSET {"filename", "file_stream", "fd"}

\* What open(filename) does.
OpenOutcomes == {"opened", "IOError"}

\* What SHARED_TS.hdrFromFdno(file_desc) does: it returns a header or None, or
\* raises RuntimeError or rpm.error (which is not a RuntimeError).
DecodeOutcomes == {"hdr", "None", "RuntimeError", "rpm.error"}

\* The headers the decoder returns here.
PkgHdrs == { make_hdr(NoSigs, PyNone, src) : src \in {PyNone, PyInt(1)} }
              \cup { make_hdr([NoSigs EXCEPT !["siggpg"] = sig_bytes(17)],
                              PyInt(8), PyNone) }

\* rpm.addMacro pushes a definition, rpm.delMacro pops one if there is one.
addMacro(m) == m + 1
delMacro(m) == IF m > 0 THEN m - 1 ELSE 0

\* What the try statement of lines 218-223 leaves of the macro, for each
\* thing hdrFromFdno does.
macros_after_decode(m, decode) ==
    CASE decode \in {"hdr", "None"} -> delMacro(m)
      [] decode = "RuntimeError"    -> delMacro(m)
      [] OTHER                      -> m

\* The result is [exc, obj, ts, macros, created]: the exception raised, the
\* RPM_Header returned, SHARED_TS and the macro stack as the call leaves
\* them, and the rpm.ts() calls it made.
get_package_header(args, opened, decode, hdr, ts, m, has_dsa) ==
    IF args = {} THEN
        [exc |-> "ValueError", obj |-> NoHeader, ts |-> ts, macros |-> m,
         created |-> 0]
    ELSE IF "filename" \in args /\ opened = "IOError" THEN
        [exc |-> "IOError", obj |-> NoHeader, ts |-> ts, macros |-> m,
         created |-> 0]
    ELSE
        LET created == IF ts = "None" THEN 1 ELSE 0
            m1 == addMacro(m)
            m2 == macros_after_decode(m1, decode)
            built == RPM_Header(hdr, hdr["sourcepackage"], has_dsa)
        IN CASE decode = "RuntimeError" ->
                  [exc |-> "RuntimeError", obj |-> NoHeader, ts |-> "ts",
                   macros |-> m2, created |-> created]
             [] decode = "rpm.error" ->
                  [exc |-> "rpm.error", obj |-> NoHeader, ts |-> "ts",
                   macros |-> m2, created |-> created]
             [] decode = "None" ->
                  [exc |-> "InvalidPackageError", obj |-> NoHeader,
                   ts |-> "ts", macros |-> m2, created |-> created]
             [] OTHER ->
                  [exc |-> built.exc, obj |-> built.obj, ts |-> "ts",
                   macros |-> m2, created |-> created]

(***************************************************************************)
(* Text.  A character is its code; the characters the model writes are     *)
(* listed here.                                                            *)
(***************************************************************************)
ord == [c \in {"0", "1", "2", "9", "a", "b", "N", "o", "n", "e", ".", "~"} |->
          CASE c = "0" -> 48 [] c = "1" -> 49 [] c = "2" -> 50 [] c = "9" -> 57
            [] c = "a" -> 97 [] c = "b" -> 98 [] c = "N" -> 78 [] c = "o" -> 111
            [] c = "n" -> 110 [] c = "e" -> 101 [] c = "." -> 46
            [] c = "~" -> 126]

\* The codes of a text written as a tuple of characters.
Text(chars) == [i \in DOMAIN chars |-> ord[chars[i]]]

IsDigit(c) == c \in 48..57
IsAlpha(c) == c \in 65..90 \/ c \in 97..122
IsAlnum(c) == IsDigit(c) \/ IsAlpha(c)
Tilde == ord["~"]

\* Three-way comparison of two sequences of codes, as strcmp and the
\* ordering of Python's byte strings do it: -1, 0 or 1.
RECURSIVE lex_cmp(_, _)
lex_cmp(a, b) ==
    IF a = << >> /\ b = << >> THEN 0
    ELSE IF a = << >> THEN -1
    ELSE IF b = << >> THEN 1
    ELSE IF Head(a) < Head(b) THEN -1
    ELSE IF Head(a) > Head(b) THEN 1
    ELSE lex_cmp(Tail(a), Tail(b))

\* The decimal digits of a natural number.
RECURSIVE digits(_)
digits(n) == IF n < 10 THEN <<48 + n>> ELSE digits(n \div 10) \o <<48 + (n % 10)>>

\* str(x) of Python 2: a string is itself, None is "None", an integer its
\* decimal digits.
py_str(x) ==
    CASE x.t = "none" -> PyStr(Text(<<"N", "o", "n", "e">>))
      [] x.t = "int"  -> PyStr(digits(x.v[1]))
      [] OTHER        -> PyStr(x.v)

(***************************************************************************)
(* rpm.labelCompare, the comparator of the rpm library: the ordering of    *)
(* epoch, version and release, by segments.                                *)
(***************************************************************************)
RECURSIVE strip_separators(_)
strip_separators(s) ==
    IF s # << >> /\ ~IsAlnum(Head(s)) /\ Head(s) # Tilde
      THEN strip_separators(Tail(s)) ELSE s

RECURSIVE run_length(_, _)
run_length(s, numeric) ==
    IF s # << >> /\ (IF numeric THEN IsDigit(Head(s)) ELSE IsAlpha(Head(s)))
      THEN 1 + run_length(Tail(s), numeric) ELSE 0

RECURSIVE strip_zeros(_)
strip_zeros(s) == IF s # << >> /\ Head(s) = 48 THEN strip_zeros(Tail(s)) ELSE s

Drop(s, n) == SubSeq(s, n + 1, Len(s))

\* Two runs of one class: digit runs by value, alphabetic runs by code.
segment_cmp(seg1, seg2, numeric) ==
    IF numeric THEN
        LET n1 == strip_zeros(seg1)
            n2 == strip_zeros(seg2)
        IN IF Len(n1) > Len(n2) THEN 1
           ELSE IF Len(n2) > Len(n1) THEN -1
           ELSE lex_cmp(n1, n2)
    ELSE lex_cmp(seg1, seg2)

RECURSIVE rpmvercmp(_, _)

\* The comparison of two texts whose leading separators are stripped.
stripped_cmp(one, two) ==
    LET tilde1 == one # << >> /\ Head(one) = Tilde
        tilde2 == two # << >> /\ Head(two) = Tilde
    IN IF tilde1 \/ tilde2 THEN
           IF ~tilde1 THEN 1
           ELSE IF ~tilde2 THEN -1
           ELSE rpmvercmp(Tail(one), Tail(two))
       ELSE IF one = << >> /\ two = << >> THEN 0
       ELSE IF one = << >> THEN -1
       ELSE IF two = << >> THEN 1
       ELSE
           LET numeric == IsDigit(Head(one))
               n1 == run_length(one, numeric)
               n2 == run_length(two, numeric)
           IN IF n2 = 0 THEN (IF numeric THEN 1 ELSE -1)
              ELSE Bind(segment_cmp(SubSeq(one, 1, n1), SubSeq(two, 1, n2),
                                    numeric),
                        LAMBDA c : IF c # 0 THEN c
                                   ELSE rpmvercmp(Drop(one, n1), Drop(two, n2)))

rpmvercmp(s1, s2) ==
    Bind(<<strip_separators(s1), strip_separators(s2)>>,
         LAMBDA st : stripped_cmp(st[1], st[2]))

\* An argument the library takes as a string: a string or None.
IsStringOrNone(x) == x.t \in {"str", "none"}

\* rpm.labelCompare((e1, v1, r1), (e2, v2, r2)) is [exc, ret].
labelCompare(evr1, evr2) ==
    IF \E i \in 1..3 : ~IsStringOrNone(evr1[i]) \/ ~IsStringOrNone(evr2[i])
      THEN [exc |-> "TypeError", ret |-> 0]
    ELSE
      LET e1 == evr1[1]
          e2 == evr2[1]
          epoch == IF e1 = PyNone /\ e2 = PyNone THEN 0
                   ELSE IF e1 = PyNone THEN -1
                   ELSE IF e2 = PyNone THEN 1
                   ELSE rpmvercmp(e1.v, e2.v)
      IN Bind(epoch, LAMBDA e :
           IF e # 0 THEN [exc |-> NoException, ret |-> e]
           ELSE Bind(rpmvercmp(evr1[2].v, evr2[2].v), LAMBDA v :
                  IF v # 0 THEN [exc |-> NoException, ret |-> v]
                  ELSE [exc |-> NoException,
                        ret |-> rpmvercmp(evr1[3].v, evr2[3].v)]))

(***************************************************************************)
(* nvre_compare, hdrLabelCompare and sortRPMs.  The result of a comparison *)
(* is [exc, ret, compared]: compared says whether rpm.labelCompare was     *)
(* called.                                                                 *)
(***************************************************************************)
\* build_evr(p) of nvre_compare; p is (name, version, release, epoch).
\* map() gives a list under Python 2 and an iterator, which has no evr[0],
\* under Python 3.
build_evr(p, py) ==
    IF py >= 3 THEN [exc |-> "TypeError", evr |-> << >>]
    ELSE
      LET evr == <<py_str(p[4]), py_str(p[2]), py_str(p[3])>>
      IN [exc |-> NoException,
          evr |-> IF evr[1] = PyStr(<< >>) THEN [evr EXCEPT ![1] = PyNone]
                  ELSE evr]

\* nvre_compare with the test of the two names left out.
nvre_compare_mutant(t1, t2, py) ==
    Bind(<<build_evr(t1, py), build_evr(t2, py)>>, LAMBDA evr :
      IF evr[1].exc # NoException
        THEN [exc |-> evr[1].exc, ret |-> 0, compared |-> FALSE]
      ELSE IF evr[2].exc # NoException
        THEN [exc |-> evr[2].exc, ret |-> 0, compared |-> FALSE]
      ELSE Bind(labelCompare(evr[1].evr, evr[2].evr), LAMBDA r :
             [exc |-> r.exc, ret |-> r.ret, compared |-> TRUE]))

nvre_compare(t1, t2, py) ==
    IF t1[1] # t2[1] THEN
        [exc |-> "ValueError", ret |-> 0, compared |-> FALSE]
    ELSE
        Bind(<<build_evr(t1, py), build_evr(t2, py)>>, LAMBDA evr :
          IF evr[1].exc # NoException
            THEN [exc |-> evr[1].exc, ret |-> 0, compared |-> FALSE]
          ELSE IF evr[2].exc # NoException
            THEN [exc |-> evr[2].exc, ret |-> 0, compared |-> FALSE]
          ELSE Bind(labelCompare(evr[1].evr, evr[2].evr), LAMBDA r :
                 [exc |-> r.exc, ret |-> r.ret, compared |-> TRUE]))

\* Lines 292-295: `if hdr[0]: hdr[0] = str(hdr[0])`.
epoch_to_str(epoch) == IF Truthy(epoch) THEN py_str(epoch) ELSE epoch

\* The list [epoch, version.decode('utf-8'), release.decode('utf-8')] of
\* lines 290-295: [exc, evr].
hdr_evr(hdr) ==
    LET v == decode_utf8(hdr["version"])
        r == decode_utf8(hdr["release"])
    IN IF v.exc # NoException THEN [exc |-> v.exc, evr |-> << >>]
       ELSE IF r.exc # NoException THEN [exc |-> r.exc, evr |-> << >>]
       ELSE [exc |-> NoException,
             evr |-> <<epoch_to_str(hdr["epoch"]), v.value, r.value>>]

hdrLabelCompare(hdr1, hdr2) ==
    IF hdr1["name"] = hdr2["name"] THEN
        Bind(<<hdr_evr(hdr1), hdr_evr(hdr2)>>, LAMBDA l :
          IF l[1].exc # NoException
            THEN [exc |-> l[1].exc, ret |-> 0, compared |-> FALSE]
          ELSE IF l[2].exc # NoException
            THEN [exc |-> l[2].exc, ret |-> 0, compared |-> FALSE]
          ELSE Bind(labelCompare(l[1].evr, l[2].evr), LAMBDA r :
                 [exc |-> r.exc, ret |-> r.ret, compared |-> TRUE]))
    ELSE IF lex_cmp(hdr1["name"].v, hdr2["name"].v) < 0 THEN
        [exc |-> NoException, ret |-> -1, compared |-> FALSE]
    ELSE [exc |-> NoException, ret |-> 1, compared |-> FALSE]

\* x < y of two keys made by hdrLabelCompareKey: [exc, lt].
key_lt(x, y) ==
    Bind(hdrLabelCompare(x, y), LAMBDA r :
      [exc |-> r.exc, lt |-> r.exc = NoException /\ r.ret < 0])

\* sorted(): the run the list starts with is found, turned round when it
\* falls, and every later item is put into it by binary search.
RECURSIVE count_run(_, _, _)
count_run(a, i, descending) ==
    IF i > Len(a) THEN [exc |-> NoException, n |-> Len(a)]
    ELSE Bind(key_lt(a[i], a[i - 1]), LAMBDA c :
           IF c.exc # NoException THEN [exc |-> c.exc, n |-> 0]
           ELSE IF c.lt = descending THEN count_run(a, i + 1, descending)
           ELSE [exc |-> NoException, n |-> i - 1])

Reverse(s) == [i \in 1..Len(s) |-> s[Len(s) + 1 - i]]

RECURSIVE binary_search(_, _, _, _)
binary_search(a, pivot, l, r) ==
    IF l >= r THEN [exc |-> NoException, at |-> l]
    ELSE LET p == l + ((r - l) \div 2)
         IN Bind(key_lt(pivot, a[p + 1]), LAMBDA c :
              IF c.exc # NoException THEN [exc |-> c.exc, at |-> 0]
              ELSE IF c.lt THEN binary_search(a, pivot, l, p)
              ELSE binary_search(a, pivot, p + 1, r))

\* The list with the item at place start + 1 moved to place at + 1.
insert_at(a, start, at) ==
    SubSeq(a, 1, at) \o <<a[start + 1]>> \o SubSeq(a, at + 1, start)
      \o SubSeq(a, start + 2, Len(a))

RECURSIVE binarysort(_, _)
binarysort(list, start) ==
    Bind(list, LAMBDA a :
      IF start >= Len(a) THEN [exc |-> NoException, list |-> a]
      ELSE Bind(binary_search(a, a[start + 1], 0, start), LAMBDA found :
             IF found.exc # NoException
               THEN [exc |-> found.exc, list |-> << >>]
             ELSE binarysort(insert_at(a, start, found.at), start + 1)))

sorted(a) ==
    IF Len(a) < 2 THEN [exc |-> NoException, list |-> a]
    ELSE Bind(key_lt(a[2], a[1]), LAMBDA first :
           IF first.exc # NoException
             THEN [exc |-> first.exc, list |-> << >>]
           ELSE Bind(count_run(a, 3, first.lt), LAMBDA run :
                  IF run.exc # NoException
                    THEN [exc |-> run.exc, list |-> << >>]
                  ELSE IF first.lt
                    THEN binarysort(Reverse(SubSeq(a, 1, run.n))
                                      \o SubSeq(a, run.n + 1, Len(a)), run.n)
                  ELSE binarysort(a, run.n)))

\* sortRPMs(rpms): every file is loaded with get_package_header, here with
\* success, and the headers are sorted.  The result is [exc, list, ts,
\* created].
sortRPMs(hdrs, ts) ==
    Bind(sorted(hdrs), LAMBDA r :
      [exc |-> r.exc, list |-> r.list,
       ts |-> IF hdrs = << >> THEN ts ELSE "ts",
       created |-> IF hdrs # << >> /\ ts = "None" THEN 1 ELSE 0])

(***************************************************************************)
(* The packages that are compared.                                         *)
(***************************************************************************)
Names == {Text(<<"a">>), Text(<<"a", "b">>)}

Versions == {Text(<<"1", ".", "0">>), Text(<<"1", ".", "0", "~", "a">>),
             Text(<<"1", ".", "9">>), Text(<<"1", ".", "1", "0">>),
             Text(<<"1", ".", "0", "a">>)}

Releases == {Text(<<"1">>), Text(<<"2">>)}

\* The epoch tag of a header: absent, or an integer.
HdrEpochs == {PyNone, PyInt(0), PyInt(1)}

\* The epoch of a tuple: None, or a string that may be empty.
TupleEpochs == {PyNone, PyStr(<< >>), PyStr(Text(<<"0">>)), PyStr(Text(<<"1">>))}

CmpHdrs ==
    { [name |-> PyBytes(n), epoch |-> e, version |-> PyBytes(v),
       release |-> PyBytes(r)] :
        n \in Names, e \in HdrEpochs, v \in Versions, r \in Releases }

\* The packages of the lists that are sorted.
SortHdrs ==
    { h \in CmpHdrs : /\ h["release"] = PyBytes(Text(<<"1">>))
                      /\ h["version"].v \in {Text(<<"1", ".", "0">>),
                                             Text(<<"1", ".", "0", "~", "a">>)} }

Tuples ==
    { <<PyStr(n), PyStr(v), PyStr(r), e>> :
        n \in Names, v \in Versions, r \in Releases, e \in TupleEpochs }

PythonVersions == {2, 3}

RpmLists ==
    UNION { [1..n -> SortHdrs] : n \in 1..MaxRpms }

\* The state before any file is opened, header decoded or package compared.
Idle ==
    /\ pkg_file = NoFile
    /\ rpm_has_dsa = TRUE
    /\ decoded = NoHdr
    /\ header = NoHeader
    /\ rpms = << >>
    /\ tuples = << >>
    /\ python = 3
    /\ SHARED_TS = "None"
    /\ macros = 0
    /\ ts_created = 0
    /\ ncalls = 0
    /\ call = NoCall

(***************************************************************************)
(* The byte-range locator: a file is opened, then the two functions are    *)
(* called on it, in any order and any number of times.                     *)
(***************************************************************************)
InitFile ==
    /\ pkg_file \in [data : CompleteFiles \cup PreambleFiles \cup CutFiles,
                     pos : {0}]
    /\ rpm_has_dsa = TRUE
    /\ decoded = NoHdr
    /\ header = NoHeader
    /\ rpms = << >>
    /\ tuples = << >>
    /\ python = 3
    /\ SHARED_TS = "None"
    /\ macros = 0
    /\ ts_created = 0
    /\ ncalls = 0
    /\ call = NoCall

\* Where a caller puts the cursor before asking for a structure's size: after
\* the lead, or at the header start get_header_byte_range returned last.
StructStarts ==
    {lead_size} \cup
    (IF call.op = "get_header_byte_range" /\ call.exc = NoException
       THEN {call.ret[1]} ELSE {})

\* package_file.seek(start); get_header_struct_size(package_file)
GetHeaderStructSize ==
    /\ pkg_file # NoFile
    /\ \E start \in StructStarts :
        LET f == seek(pkg_file, start, 0)
            r == get_header_struct_size(f)
        IN /\ pkg_file' = r.file
           /\ call' = [op |-> "get_header_struct_size", start |-> start,
                       exc |-> r.exc, ret |-> r.ret]
    /\ UNCHANGED <<rpm_has_dsa, decoded, header, rpms, tuples, python,
                   SHARED_TS, macros, ts_created, ncalls>>

\* get_header_byte_range(package_file)
GetHeaderByteRange ==
    /\ pkg_file # NoFile
    /\ LET r == get_header_byte_range(pkg_file)
       IN /\ pkg_file' = r.file
          /\ call' = [op |-> "get_header_byte_range", exc |-> r.exc,
                      ret |-> r.ret, sig_start |-> r.sig_start]
    /\ UNCHANGED <<rpm_has_dsa, decoded, header, rpms, tuples, python,
                   SHARED_TS, macros, ts_created, ncalls>>

NextFile == GetHeaderStructSize \/ GetHeaderByteRange

SpecFile == InitFile /\ [][NextFile]_vars

(***************************************************************************)
(* The header wrapper: a decoded header is handed over, the wrapper is     *)
(* built from it and then queried.                                         *)
(***************************************************************************)
InitHdr ==
    /\ pkg_file = NoFile
    /\ rpm_has_dsa \in BOOLEAN
    /\ decoded \in Hdrs
    /\ header = NoHeader
    /\ rpms = << >>
    /\ tuples = << >>
    /\ python = 3
    /\ SHARED_TS = "None"
    /\ macros = 0
    /\ ts_created = 0
    /\ ncalls = 0
    /\ call = NoCall

\* headerLoad(data)
HeaderLoad ==
    /\ decoded # NoHdr
    /\ header = NoHeader
    /\ LET r == headerLoad(decoded, rpm_has_dsa)
       IN /\ header' = r.obj
          /\ call' = [op |-> "headerLoad", exc |-> r.exc]
    /\ UNCHANGED <<pkg_file, rpm_has_dsa, decoded, rpms, tuples, python,
                   SHARED_TS, macros, ts_created, ncalls>>

\* header.is_signed()
IsSigned ==
    /\ header # NoHeader
    /\ LET r == is_signed(header, rpm_has_dsa)
       IN call' = [op |-> "is_signed", exc |-> r.exc, ret |-> r.ret]
    /\ UNCHANGED <<pkg_file, rpm_has_dsa, decoded, header, rpms, tuples, python,
                   SHARED_TS, macros, ts_created, ncalls>>

\* header.checksum_type()
ChecksumType ==
    /\ header # NoHeader
    /\ LET r == checksum_type(header)
       IN call' = [op |-> "checksum_type", exc |-> r.exc, ret |-> r.ret]
    /\ UNCHANGED <<pkg_file, rpm_has_dsa, decoded, header, rpms, tuples, python,
                   SHARED_TS, macros, ts_created, ncalls>>

NextHdr == HeaderLoad \/ IsSigned \/ ChecksumType

SpecHdr == InitHdr /\ [][NextHdr]_vars

(***************************************************************************)
(* Loading package headers: any number of calls, one after the other.      *)
(***************************************************************************)
InitPkg == Idle

\* get_package_header(filename, file_stream, fd)
GetPackageHeader ==
    /\ ncalls < MaxCalls
    /\ \E args \in ArgKinds, opened \in OpenOutcomes,
          decode \in DecodeOutcomes, hdr \in PkgHdrs :
        LET r == get_package_header(args, opened, decode, hdr, SHARED_TS,
                                    macros, rpm_has_dsa)
        IN /\ SHARED_TS' = r.ts
           /\ macros' = r.macros
           /\ ts_created' = ts_created + r.created
           /\ header' = r.obj
           /\ call' = [op |-> "get_package_header", args |-> args,
                       exc |-> r.exc, macros_before |-> macros]
    /\ ncalls' = ncalls + 1
    /\ UNCHANGED <<pkg_file, rpm_has_dsa, decoded, rpms, tuples, python>>

NextPkg == GetPackageHeader

SpecPkg == InitPkg /\ [][NextPkg]_vars

(***************************************************************************)
(* Ordering packages: a pair of tuples, a pair of headers or a list of     *)
(* package files is given, and compared or sorted.                         *)
(***************************************************************************)
InitCmp ==
    /\ pkg_file = NoFile
    /\ rpm_has_dsa = TRUE
    /\ decoded = NoHdr
    /\ header = NoHeader
    /\ python \in PythonVersions
    /\ \/ rpms = << >> /\ tuples \in Tuples \X Tuples
       \/ rpms \in (CmpHdrs \X CmpHdrs) \cup RpmLists /\ tuples = << >>
    /\ SHARED_TS = "None"
    /\ macros = 0
    /\ ts_created = 0
    /\ ncalls = 0
    /\ call = NoCall

\* nvre_compare(t1, t2)
NvreCompare ==
    /\ Len(tuples) = 2
    /\ \E r \in {nvre_compare(tuples[1], tuples[2], python)} :
          call' = [op |-> "nvre_compare", exc |-> r.exc, ret |-> r.ret,
                   compared |-> r.compared]
    /\ UNCHANGED <<pkg_file, rpm_has_dsa, decoded, header, rpms, tuples, python,
                   SHARED_TS, macros, ts_created, ncalls>>

\* hdrLabelCompare(hdr1, hdr2)
HdrLabelCompare ==
    /\ Len(rpms) >= 2
    /\ \E r \in {hdrLabelCompare(rpms[1], rpms[2])} :
          call' = [op |-> "hdrLabelCompare", exc |-> r.exc, ret |-> r.ret,
                   compared |-> r.compared]
    /\ UNCHANGED <<pkg_file, rpm_has_dsa, decoded, header, rpms, tuples, python,
                   SHARED_TS, macros, ts_created, ncalls>>

\* sortRPMs(rpms): the list is replaced by the sorted one when no exception is
\* raised.
SortRPMs ==
    /\ Len(rpms) >= 1
    /\ \E r \in {sortRPMs(rpms, SHARED_TS)} :
          /\ rpms' = IF r.exc = NoException THEN r.list ELSE rpms
          /\ SHARED_TS' = r.ts
          /\ ts_created' = ts_created + r.created
          /\ call' = [op |-> "sortRPMs", exc |-> r.exc, given |-> rpms]
    /\ UNCHANGED <<pkg_file, rpm_has_dsa, decoded, header, tuples, python,
                   macros, ncalls>>

NextCmp == NvreCompare \/ HdrLabelCompare \/ SortRPMs

SpecCmp == InitCmp /\ [][NextCmp]_vars

Init == InitFile \/ InitHdr \/ InitPkg \/ InitCmp

Next == NextFile \/ NextHdr \/ NextPkg \/ NextCmp

\* The whole module; each part above is checked under its own specification.
Spec == Init /\ [][Next]_vars

(***************************************************************************)
(* The properties.                                                         *)
(***************************************************************************)
\* The unsigned big-endian count a file holds at offset off.
CountAt(data, off) ==
    data[off + 1] * 16777216 + data[off + 2] * 65536 + data[off + 3] * 256
      + data[off + 4]

\* The size a structure with these counts has before padding.
RawSize(data, start) ==
    16 + 16 * CountAt(data, start + 8) + CountAt(data, start + 12)

RoundUp8(n) == ((n + 7) \div 8) * 8

StructSizeReturned ==
    call.op = "get_header_struct_size" /\ call.exc = NoException

\* C1: whatever index count and store size the preamble at the cursor holds,
\* get_header_struct_size returns a multiple of 8 that is at least
\* 16 + 16*index_count + store_bytes, exceeds it by at most 7, and equals it
\* when it is a multiple of 8 already.
C1_StructSizeRoundedUp ==
    StructSizeReturned =>
        LET raw == RawSize(pkg_file.data, call.start)
        IN /\ call.ret % 8 = 0
           /\ call.ret >= raw
           /\ call.ret - raw <= 7
           /\ (raw % 8 = 0 => call.ret = raw)

\* A size was returned for a preamble with a multi-byte index count and a
\* store size that needs padding.
C1_Witness ==
    /\ StructSizeReturned
    /\ CountAt(pkg_file.data, call.start + 8) = 65537
    /\ RawSize(pkg_file.data, call.start) % 8 = 1
    /\ call.ret = RawSize(pkg_file.data, call.start) + 7

ByteRangeReturned ==
    call.op = "get_header_byte_range" /\ call.exc = NoException

\* C2: when get_header_byte_range returns, the signature header was sized at
\* offset 96, the main header starts where the signature header ends
\* (96 + its padded size), and the main header ends at its start plus the
\* padded size its own preamble states.
C2_ByteRangeChained ==
    ByteRangeReturned =>
        LET data == pkg_file.data
            header_start == call.ret[1]
        IN /\ call.sig_start = 96
           /\ header_start = 96 + RoundUp8(RawSize(data, 96))
           /\ call.ret[2] = header_start + RoundUp8(RawSize(data, header_start))

\* A range was returned for a file whose two structures both hold index
\* entries and both need padding.
C2_Witness ==
    /\ ByteRangeReturned
    /\ RawSize(pkg_file.data, 96) = 16 + 32 + 9
    /\ call.ret[1] = 96 + 64
    /\ RawSize(pkg_file.data, call.ret[1]) = 16 + 16 + 3
    /\ call.ret[2] = 96 + 64 + 40

TagOfKind ==
    [k \in {"dsa", "rsa", "gpg", "pgp"} |->
        CASE k = "dsa" -> "dsaheader" [] k = "rsa" -> "rsaheader"
          [] k = "gpg" -> "siggpg" [] k = "pgp" -> "sigpgp"]

\* The records the header holds for one kind of signature.
RecordsOfKind(kind) ==
    SelectSeq(header.signatures, LAMBDA r : r.signature_type = kind)

\* Where the key id of a raw value of n bytes starts (0-based).
KeyIdStart(n) ==
    IF n <= 65 THEN 9 ELSE IF n <= 72 THEN 18 ELSE IF n <= 536 THEN 10 ELSE 19

\* C3: a built header holds no record for a signature kind whose raw value is
\* absent, empty or shorter than 17 bytes, and otherwise exactly one, whose
\* key id is the hex rendering of the 8 bytes that start at 9 (length <= 65),
\* 18 (<= 72), 10 (<= 536) or 19 (longer).
C3_KeyIdByLength ==
    header # NoHeader =>
        \A kind \in DOMAIN TagOfKind :
            LET raw == header.hdr[TagOfKind[kind]]
                recs == RecordsOfKind(kind)
            IN IF raw.t = "none" \/ Len(raw.v) < 17
                 THEN recs = << >>
                 ELSE /\ Len(recs) = 1
                      /\ recs[1].signature = raw
                      /\ recs[1].key_id =
                           hex_format([i \in 1..8 |->
                                         raw.v[KeyIdStart(Len(raw.v)) + i]])

\* A header was built from a 66-byte dsa value and a 537-byte pgp value, and
\* its records are the dsa one and then the pgp one.
C3_Witness ==
    /\ header # NoHeader
    /\ Len(header.hdr["dsaheader"].v) = 66
    /\ Len(header.hdr["sigpgp"].v) = 537
    /\ Len(header.signatures) = 2
    /\ header.signatures[1].signature_type = "dsa"
    /\ header.signatures[1].key_id = "c7ced5dce3eaf1f8"
    /\ header.signatures[2].signature_type = "pgp"
    /\ header.signatures[2].key_id = hex_format(SubSeq(header.hdr["sigpgp"].v, 20, 27))

NonEmpty(x) == x.t = "bytes" /\ Len(x.v) > 0

\* C4: is_signed answers 1 exactly when the gpg, the pgp or the dsa value is
\* present and not empty, and 0 otherwise, whatever the rsa value is.
C4_SignedIffGpgPgpDsa ==
    call.op = "is_signed" =>
        /\ call.exc = NoException
        /\ call.ret \in {0, 1}
        /\ call.ret = 1 <=> \/ NonEmpty(header.hdr["siggpg"])
                            \/ NonEmpty(header.hdr["sigpgp"])
                            \/ NonEmpty(header.hdr["dsaheader"])

\* is_signed answered for a header whose only signature value is rsa.
C4_Witness ==
    /\ call.op = "is_signed"
    /\ NonEmpty(header.hdr["rsaheader"])
    /\ ~Present(header.hdr["siggpg"])
    /\ ~Present(header.hdr["sigpgp"])
    /\ ~Present(header.hdr["dsaheader"])
    /\ call.ret = 0

\* C5: checksum_type returns, without raising, the name PGPHASHALGO gives for
\* the integer value of the digest tag, and md5 when the tag is absent or its
\* value is no key of the table.
C5_ChecksumTypeFromTable ==
    call.op = "checksum_type" =>
        LET algo == header.hdr["filedigestalgo"]
        IN /\ call.exc = NoException
           /\ call.ret = IF algo.t = "int" /\ algo.v[1] \in DOMAIN PGPHASHALGO
                           THEN PGPHASHALGO[algo.v[1]] ELSE "md5"

Compared == call.op \in {"nvre_compare", "hdrLabelCompare"}

\* The names and the epochs of the two packages the last comparison was given.
ComparedNames ==
    IF call.op = "nvre_compare" THEN <<tuples[1][1], tuples[2][1]>>
    ELSE <<rpms[1]["name"], rpms[2]["name"]>>

ComparedEpochs ==
    IF call.op = "nvre_compare" THEN <<tuples[1][4], tuples[2][4]>>
    ELSE <<rpms[1]["epoch"], rpms[2]["epoch"]>>

NamesDiffer == ComparedNames[1] # ComparedNames[2]

\* C6, as stated: every comparison of two packages whose names differ fails
\* with the name-mismatch error, and the versions are compared only when the
\* names are equal.
C6_NameMismatchAlwaysFails ==
    (Compared /\ NamesDiffer) => call.exc = "ValueError" /\ ~call.compared

\* C6, amended: on two packages whose names differ nvre_compare raises
\* ValueError, and hdrLabelCompare returns -1 when the first name sorts before
\* the second and 1 otherwise; neither compares versions, which are compared
\* only when the names are equal.
C6_NameMismatchByEntryPoint ==
    Compared =>
        /\ call.compared => ~NamesDiffer
        /\ (NamesDiffer /\ call.op = "nvre_compare") => call.exc = "ValueError"
        /\ (NamesDiffer /\ call.op = "hdrLabelCompare") =>
              /\ call.exc = NoException
              /\ call.ret = IF lex_cmp(ComparedNames[1].v, ComparedNames[2].v) < 0
                              THEN -1 ELSE 1

\* hdrLabelCompare ordered two headers by their names alone.
C6_Witness ==
    /\ call.op = "hdrLabelCompare"
    /\ ComparedNames = <<PyBytes(Text(<<"a", "b">>)), PyBytes(Text(<<"a">>))>>
    /\ call.ret = 1
    /\ ~call.compared

\* C7: nvre_compare on two tuples of one name returns -1, 0 or 1 and raises
\* nothing.
C7_SameNameNeverRaises ==
    (call.op = "nvre_compare" /\ ~NamesDiffer) =>
        call.exc = NoException /\ call.ret \in {-1, 0, 1}

\* An epoch that is missing: None, or the empty string of a tuple.
Missing(epoch) == epoch = PyNone \/ epoch = PyStr(<< >>)

\* C8: when two packages of one name are compared and exactly one has no
\* epoch, that one is the lesser, whatever the other's epoch, version and
\* release.
C8_MissingEpochIsLess ==
    (Compared /\ ~NamesDiffer
       /\ Missing(ComparedEpochs[1]) # Missing(ComparedEpochs[2])) =>
        /\ call.exc = NoException
        /\ call.ret = IF Missing(ComparedEpochs[1]) THEN -1 ELSE 1

SameName(list) == \A i, j \in 1..Len(list) : list[i]["name"] = list[j]["name"]

\* C9: over packages of one name hdrLabelCompare is a strict weak ordering
\* (the comparison of b with a is the opposite of that of a with b; less-than
\* and equivalence are transitive), and sorting a sorted list changes nothing.
C9_StrictWeakOrdering ==
    (call.op \in {"hdrLabelCompare", "sortRPMs"} /\ SameName(rpms)) =>
        /\ call.exc = NoException
        /\ \A i, j, k \in DOMAIN rpms :
              LET ab == hdrLabelCompare(rpms[i], rpms[j])
                  ba == hdrLabelCompare(rpms[j], rpms[i])
                  bc == hdrLabelCompare(rpms[j], rpms[k])
                  ac == hdrLabelCompare(rpms[i], rpms[k])
              IN /\ ab.exc = NoException /\ ba.exc = NoException
                 /\ ab.ret = -ba.ret
                 /\ (ab.ret < 0 /\ bc.ret < 0) => ac.ret < 0
                 /\ (ab.ret = 0 /\ bc.ret = 0) => ac.ret = 0
        /\ call.op = "sortRPMs" =>
              sorted(rpms) = [exc |-> NoException, list |-> rpms]

\* C10: after every call of get_package_header no definition of '_dbpath' is
\* left on the macro stack, and rpm.ts() was called at most once in all.
C10_MacroDeletedTsShared ==
    macros = 0 /\ ts_created <= 1
====
